---- MODULE Spec2Model ----
(***************************************************************************)
(* Acquisition (YouTubeService.download_video, _find_audio_file) and       *)
(* transcription routing (TranscriptService.generate_transcript) of the    *)
(* AI video analysis platform, over the Job store (table videos), the      *)
(* Transcript store (table transcripts) and the shared download directory. *)
(***************************************************************************)
EXTENDS Integers, Sequences, FiniteSets, TLC

(* ---------------------------- bounds ----------------------------------- *)
\* number of download_video calls (each draws one fresh uuid4)
MaxJobs == 2
\* number of generate_transcript calls
MaxTCalls == 2
\* the clock stops advancing here
MaxTime == 600
\* number of list_videos calls
MaxListings == 2
\* number of _find_audio_file calls on one directory
MaxFinds == 2
\* number of requests to the read endpoints
MaxResponses == 2

(* ------------------------ program constants ---------------------------- *)
\* str(e)[:100]
TruncLen == 100
\* file_mod_time > (current_time - 600)
RecentWindow == 600
\* file_size > 25 * 1024 * 1024
HostedLimit == 25 * 1024 * 1024
\* len("Error: ")
ErrorPrefixLen == 7
\* len("Could not extract video information: ")
InfoWrapLen == 37
\* len("Download failed: ")
DownloadWrapLen == 17
\* len("Failed to find downloaded audio file")
NotFoundMsgLen == 36
\* len("Downloaded audio file is empty")
EmptyMsgLen == 30
\* len("Audio file does not exist: ")
MissingWrapLen == 27
\* HTTPException(status_code=404, ...)
NotFoundStatus == 404
\* HTTPException(status_code=400, ...)
BadRequestStatus == 400
\* the status of a response that returns normally
OkStatus == 200

JobIds == 1..MaxJobs
TCallIds == 1..MaxTCalls

(* ------------------------ environment inputs --------------------------- *)
\* seconds the clock advances in one step
TickSeconds == RecentWindow
\* lengths of the messages carried by failures of the extractor / the store
ErrLens == {120}
\* sizes in bytes a written file can have
Sizes == {0, HostedLimit, HostedLimit + 1}
\* extensions the extractor can give its output file
Exts == {"MP3", "part"}
\* lengths of the absolute path of a file in the download directory
AbsPathLens == {60}
\* metadata the extractor can report
Titles == {[text |-> "Talk", len |-> 4]}
Durations == {120}
\* texts a backend can return, as character sequences
Texts ==
    { <<>>, <<" ">>, <<"a">>, <<"a", "\t", "b">>,
      <<" ", "a", " ", " ", "b", "\n">> }
\* what the backends return when the text is not the subject
DefaultSpeech == [hosted |-> <<"a", " ", "b">>, local |-> <<" ", "a", " ", "b">>]

\* what the download directory can hold when the resolver runs: files of any
\* call's prefix, of these extensions and of these ages in seconds
ResolverExts == {"m4a", "MP3", "part"}
Ages == {30, RecentWindow, 700}
\* the clock when the resolver runs
ResolverNow == 2 * RecentWindow

\* URLs a client can submit, as character sequences
UrlUpper == <<"Y","o","u","T","u","b","e",".","C","O","M","/","b">>
UrlOther == <<"v","i","m","e","o",".","c","o","m","/","c">>
UrlEmbed == <<"x",".","i","o","/","?","y","o","u","t","u",".","b","e">>
UrlEmpty == <<>>
Urls == {UrlUpper, UrlOther, UrlEmbed, UrlEmpty}

(* --------------------- schemas.VideoDownloadRequest -------------------- *)
youtube_domains ==
    { <<"y","o","u","t","u","b","e",".","c","o","m">>,
      <<"w","w","w",".","y","o","u","t","u","b","e",".","c","o","m">>,
      <<"m",".","y","o","u","t","u","b","e",".","c","o","m">>,
      <<"y","o","u","t","u",".","b","e">>,
      <<"w","w","w",".","y","o","u","t","u",".","b","e">> }

\* str.lower() on the characters the inputs use
LowerChar(c) ==
    CASE c = "Y" -> "y" [] c = "T" -> "t" [] c = "C" -> "c"
      [] c = "O" -> "o" [] c = "M" -> "m" [] c = "P" -> "p"
      [] OTHER -> c

Lower(s) == [i \in 1..Len(s) |-> LowerChar(s[i])]

\* Python's `d in s` for strings
Contains(s, d) ==
    \E i \in 0..(Len(s) - Len(d)) : SubSeq(s, i + 1, i + Len(d)) = d

\* any(domain in v.lower() for domain in youtube_domains)
HasRecognizedHost(v) == \E d \in youtube_domains : Contains(Lower(v), d)

validate_url_accept_all(v) == TRUE

\* TRUE iff the validator returns v, FALSE iff it raises ValueError
validate_url(v) == v /= <<>> /\ HasRecognizedHost(v)

\* the submitted URLs that reach the endpoint body
ValidUrls == {u \in Urls : validate_url(u)}

(* ------------------------------ state ---------------------------------- *)
VARIABLES
    videos,       \* table videos: job id -> committed row
    transcripts,  \* table transcripts: committed rows, in insertion order
    files,        \* download directory: file name -> [size, mtime]
    now,          \* wall clock, seconds
    dl,           \* download_video calls: job id -> [pc, url, e]
    tc,           \* generate_transcript calls
    rejected,     \* URLs the request validator has rejected
    client,       \* TranscriptService.client is set
    local_model,  \* TranscriptService.local_model is loaded
    speech,       \* the text each backend returns for the recorded audio
    listings,     \* what the list_videos calls so far have returned, as id sequences
    found,        \* what the _find_audio_file calls so far have returned
    responses     \* HTTP responses the read endpoints have sent

vars ==
    <<videos, transcripts, files, now, dl, tc, rejected, client, local_model,
      speech, listings, found, responses>>

\* a NULL audio_path / the resolver's None
NoPath == [id |-> 0, ext |-> "none"]

NoErr == [step |-> "none", len |-> 0]
Placeholder == [kind |-> "placeholder", text |-> "Processing...", len |-> 13]

Min(a, b) == IF a < b THEN a ELSE b

(* ------------------- YouTubeService._find_audio_file ------------------- *)
audio_extensions == {"m4a", "mp3", "webm", "ogg", "opus", "aac", "wav"}

LowerExt(x) == CASE x = "MP3" -> "mp3" [] OTHER -> x

\* any(file.name.lower().endswith(ext) for ext in audio_extensions)
HasAudioExt(f) == LowerExt(f.ext) \in audio_extensions

\* glob(f"{video_id}_*") filtered by extension
PrefixMatches(video_id) ==
    {f \in DOMAIN files : f.id = video_id /\ HasAudioExt(f)}

IsRecentInclusive(f) == files[f].mtime >= now - RecentWindow

\* file_mod_time > (current_time - 600)
IsRecent(f) == files[f].mtime > now - RecentWindow

RecentMatches == {f \in DOMAIN files : HasAudioExt(f) /\ IsRecent(f)}

FindAudioFileRecentFirst(video_id) ==
    IF RecentMatches /= {} THEN RecentMatches
    ELSE IF PrefixMatches(video_id) /= {} THEN PrefixMatches(video_id)
    ELSE {NoPath}

\* The set of values the resolver can return: glob yields the directory in
\* no particular order and the first hit of each loop is returned.
FindAudioFile(video_id) ==
    IF PrefixMatches(video_id) /= {} THEN PrefixMatches(video_id)
    ELSE IF RecentMatches /= {} THEN RecentMatches
    ELSE {NoPath}

(* --------------------- YouTubeService.download_video ------------------- *)
FreshIdsAny == JobIds

\* uuid.uuid4(): an id no earlier call has drawn
FreshIds == {k \in JobIds : dl[k].pc = "idle" /\ \A j \in JobIds : j < k => dl[j].pc /= "idle"}

\* Video(id=video_id, title="Processing...", url=url, status="processing")
InitialRow(url) ==
    [title |-> Placeholder, url |-> url, duration |-> 0,
     audio_path |-> NoPath, status |-> "processing", created_at |-> now]

UrlTakenNever(url) == FALSE

\* column url is unique=True
UrlTaken(url) == \E j \in DOMAIN videos : videos[j].url = url

MetadataRowNotStored(row, title, duration) == row

\* video.title = title; video.duration = duration
MetadataRow(row, title, duration) ==
    [row EXCEPT !.title = [kind |-> "extracted", text |-> title.text, len |-> title.len],
                !.duration = duration]

CompletedRowKeepStatus(row, path) == [row EXCEPT !.audio_path = path]

\* video.audio_path = str(audio_file_path.absolute()); video.status = "completed"
CompletedRow(row, path) ==
    [row EXCEPT !.audio_path = path, !.status = "completed"]

ErrorTitleUntruncated(e) ==
    [kind |-> "error", text |-> e.step, len |-> ErrorPrefixLen + e.len]

\* f"Error: {str(e)[:100]}"
ErrorTitle(e) ==
    [kind |-> "error", text |-> e.step, len |-> ErrorPrefixLen + Min(e.len, TruncLen)]

\* video.status = "error"; video.title = f"Error: {str(e)[:100]}"
ErrorRow(row, e) == [row EXCEPT !.status = "error", !.title = ErrorTitle(e)]

\* the endpoint's request model rejects the URL: no service call
Reject(url) ==
    /\ url \notin ValidUrls
    /\ rejected' = rejected \cup {url}
    /\ UNCHANGED <<videos, transcripts, files, now, dl, tc, client, local_model, speech, listings, found, responses>>

\* lines 70-86: draw the id, add the row, commit
Create(url) ==
    /\ url \in ValidUrls
    /\ \E id \in FreshIds :
        \/ /\ ~UrlTaken(url)
           /\ videos' = [k \in DOMAIN videos \cup {id} |->
                            IF k = id THEN InitialRow(url) ELSE videos[k]]
           /\ dl' = [dl EXCEPT ![id] = [pc |-> "created", url |-> url, e |-> NoErr]]
        \/ \E n \in ErrLens :
           /\ videos' = videos
           /\ dl' = [dl EXCEPT ![id] = [pc |-> "handler", url |-> url,
                                        e |-> [step |-> "create", len |-> n]]]
    /\ UNCHANGED <<transcripts, files, now, tc, rejected, client, local_model, speech, listings, found, responses>>

\* lines 107-134: extract_info(url, download=False), then commit the metadata
ExtractInfo(id) ==
    /\ dl[id].pc = "created"
    /\ \/ \E n \in ErrLens :
            \* extract_info raises; re-raised wrapped at line 119
            /\ dl' = [dl EXCEPT ![id].pc = "handler",
                                ![id].e = [step |-> "info", len |-> InfoWrapLen + n]]
            /\ videos' = videos
       \/ \E title \in Titles, duration \in Durations :
            \/ /\ videos' = [videos EXCEPT ![id] = MetadataRow(@, title, duration)]
               /\ dl' = [dl EXCEPT ![id].pc = "meta"]
            \/ \E n \in ErrLens :
               \* db.commit() at line 133 raises; the session rolls back
               /\ videos' = videos
               /\ dl' = [dl EXCEPT ![id].pc = "handler",
                                   ![id].e = [step |-> "commit_meta", len |-> n]]
    /\ UNCHANGED <<transcripts, files, now, tc, rejected, client, local_model, speech, listings, found, responses>>

OutputNameTitleOnly(id, ext) == [id |-> 0, ext |-> ext]

\* the output template {video_id}_%(title)s.%(ext)s
OutputName(id, ext) == [id |-> id, ext |-> ext]

\* the directory after the extractor has written `name`
Written(name, size) ==
    [f \in DOMAIN files \cup {name} |->
        IF f = name THEN [size |-> size, mtime |-> now] ELSE files[f]]

\* lines 136-157: ydl.download([url]) returns after writing its output file,
\* of any extension and size, or raises, with or without a file left behind
Download(id) ==
    /\ dl[id].pc = "meta"
    /\ \/ /\ \E ext \in Exts, size \in Sizes : files' = Written(OutputName(id, ext), size)
          /\ dl' = [dl EXCEPT ![id].pc = "downloaded"]
       \/ /\ \/ files' = files
             \/ \E ext \in Exts, size \in Sizes : files' = Written(OutputName(id, ext), size)
          /\ \E n \in ErrLens :
                dl' = [dl EXCEPT ![id].pc = "handler",
                                 ![id].e = [step |-> "download", len |-> DownloadWrapLen + n]]
    /\ UNCHANGED <<videos, transcripts, now, tc, rejected, client, local_model, speech, listings, found, responses>>

\* audio_file_path.exists()
Exists(path) == path \in DOMAIN files

FileAcceptedNoSizeCheck(path) == Exists(path)

\* lines 182-189: the file exists and file_size is not 0
FileAccepted(path) == Exists(path) /\ files[path].size /= 0

\* the exception lines 162-189 raise for a resolved path that is not accepted
ResolveError(path) ==
    IF path = NoPath THEN [step |-> "resolve", len |-> NotFoundMsgLen]
    ELSE IF ~Exists(path)
    THEN [step |-> "missing", len |-> MissingWrapLen + (CHOOSE n \in AbsPathLens : TRUE)]
    ELSE [step |-> "empty", len |-> EmptyMsgLen]

\* lines 159-206: resolve the output file, check it, commit path and status
Finalize(id) ==
    /\ dl[id].pc = "downloaded"
    /\ \E path \in FindAudioFile(id) :
        IF path /= NoPath /\ FileAccepted(path)
        THEN \/ /\ videos' = [videos EXCEPT ![id] = CompletedRow(@, path)]
                /\ dl' = [dl EXCEPT ![id].pc = "returned"]
             \/ \E n \in ErrLens :
                \* db.commit() at line 194 raises; the session rolls back
                /\ videos' = videos
                /\ dl' = [dl EXCEPT ![id].pc = "handler",
                                    ![id].e = [step |-> "commit_final", len |-> n]]
        ELSE /\ videos' = videos
             /\ dl' = [dl EXCEPT ![id].pc = "handler", ![id].e = ResolveError(path)]
    /\ UNCHANGED <<transcripts, files, now, tc, rejected, client, local_model, speech, listings, found, responses>>

\* lines 213-228: look the row up, mark it, commit; when the lookup or the
\* commit raises (the session is not rolled back after a failed commit, the
\* store may be unreachable) that is logged and dropped; the original
\* exception is raised to the caller either way
Handler(id) ==
    /\ dl[id].pc = "handler"
    /\ \/ /\ id \in DOMAIN videos
          /\ videos' = [videos EXCEPT ![id] = ErrorRow(@, dl[id].e)]
       \/ videos' = videos
    /\ dl' = [dl EXCEPT ![id].pc = "raised"]
    /\ UNCHANGED <<transcripts, files, now, tc, rejected, client, local_model, speech, listings, found, responses>>

\* time passes
Tick ==
    /\ now + TickSeconds <= MaxTime
    /\ now' = now + TickSeconds
    /\ UNCHANGED <<videos, transcripts, files, dl, tc, rejected, client, local_model, speech, listings, found, responses>>

(* ----------------- TranscriptService.generate_transcript --------------- *)
IdleCall ==
    [pc |-> "idle", video_id |-> 0, size |-> -1, hosted |-> 0, local |-> 0,
     hostedFailed |-> FALSE, result |-> "none", err |-> "none"]

AudioPathGuessed(video_id) ==
    IF \E f \in DOMAIN files : f.id = video_id
    THEN CHOOSE f \in DOMAIN files : f.id = video_id
    ELSE NoPath

\* line 52: os.path.join(self.download_dir, video.audio_path); the stored path
\* is absolute, so the join returns it as is
AudioPathOf(video_id) == videos[video_id].audio_path

LocalOnlyInclusive(size) == size >= HostedLimit \/ ~client

\* line 65: file_size > 25 * 1024 * 1024 or not self.client
LocalOnly(size) == size > HostedLimit \/ ~client

AfterHostedFailureRetry == "hosted"

AfterHostedFailureRaise == "raised"

\* lines 76-82: fall back to the local model if loaded, else re-raise
AfterHostedFailure == IF local_model THEN "local" ELSE "raised"

\* str.isspace() on the characters the texts use
IsSpace(ch) == ch \in {" ", "\t", "\n"}

RECURSIVE SplitFrom(_, _, _)
\* str.split() with no separator, scanning from position i: runs of whitespace
\* separate the items and leading and trailing whitespace yields none; the
\* value is the number of items that start at or after i
SplitFrom(text, i, inItem) ==
    IF i > Len(text) THEN 0
    ELSE IF IsSpace(text[i]) THEN SplitFrom(text, i + 1, FALSE)
    ELSE (IF inItem THEN 0 ELSE 1) + SplitFrom(text, i + 1, TRUE)

\* len(transcript_text.split())
SplitLen(text) == SplitFrom(text, 1, FALSE)

\* line 124: word_count=len(transcript_text.split())
HostedWordCount(text) == SplitLen(text)

LocalWordCountBySpace(text) ==
    Cardinality({i \in 1..Len(text) : text[i] = " "}) + 1

\* line 160: word_count = len(transcript_text.split())
LocalWordCount(text) == SplitLen(text)

\* Transcript(video_id=video_id, transcript=transcript_text, word_count=...)
TranscriptRow(video_id, backend) ==
    [video_id |-> video_id, backend |-> backend, text |-> speech[backend],
     word_count |-> IF backend = "hosted" THEN HostedWordCount(speech[backend])
                    ELSE LocalWordCount(speech[backend])]

StoredReplacing(video_id, backend) ==
    Append(SelectSeq(transcripts, LAMBDA t : t.video_id /= video_id),
           TranscriptRow(video_id, backend))

\* db.add(transcript_record); db.commit()
Stored(video_id, backend) == Append(transcripts, TranscriptRow(video_id, backend))

\* lines 45-70: look the Job up, validate the artifact, measure it, route
GenStart(c, video_id) ==
    /\ tc[c].pc = "idle"
    /\ \A b \in TCallIds : b < c => tc[b].pc /= "idle"
    /\ tc' = [tc EXCEPT ![c] =
        IF video_id \notin DOMAIN videos
        THEN [@ EXCEPT !.pc = "raised", !.video_id = video_id, !.err = "video_not_found"]
        ELSE LET audio_path == AudioPathOf(video_id) IN
        IF audio_path = NoPath
        THEN \* os.path.join(self.download_dir, None) raises TypeError
             [@ EXCEPT !.pc = "raised", !.video_id = video_id, !.err = "type_error"]
        ELSE IF ~Exists(audio_path)
        THEN [@ EXCEPT !.pc = "raised", !.video_id = video_id, !.err = "audio_not_found"]
        ELSE LET size == files[audio_path].size IN
             IF LocalOnly(size)
             THEN IF local_model
                  THEN [@ EXCEPT !.pc = "local", !.video_id = video_id, !.size = size]
                  ELSE [@ EXCEPT !.pc = "raised", !.video_id = video_id, !.size = size,
                                 !.err = "unavailable"]
             ELSE [@ EXCEPT !.pc = "hosted", !.video_id = video_id, !.size = size]]
    /\ UNCHANGED <<videos, transcripts, files, now, dl, rejected, client, local_model, speech, listings, found, responses>>

\* lines 72-82 and _generate_openai_transcript: the API call, then the commit
GenHosted(c) ==
    /\ tc[c].pc = "hosted"
    /\ \/ /\ transcripts' = Stored(tc[c].video_id, "hosted")
          /\ tc' = [tc EXCEPT ![c].pc = "returned", ![c].hosted = @ + 1,
                              ![c].result = "hosted"]
       \/ \* the API call or the commit raises
          /\ transcripts' = transcripts
          /\ tc' = [tc EXCEPT ![c].pc = AfterHostedFailure, ![c].hosted = @ + 1,
                              ![c].hostedFailed = TRUE,
                              ![c].err = IF AfterHostedFailure = "raised"
                                         THEN "hosted_failure" ELSE @]
    /\ UNCHANGED <<videos, files, now, dl, rejected, client, local_model, speech, listings, found, responses>>

\* _generate_local_transcript: the model call, then the commit
GenLocal(c) ==
    /\ tc[c].pc = "local"
    /\ \/ /\ transcripts' = Stored(tc[c].video_id, "local")
          /\ tc' = [tc EXCEPT ![c].pc = "returned", ![c].local = @ + 1,
                              ![c].result = "local"]
       \/ /\ transcripts' = transcripts
          /\ tc' = [tc EXCEPT ![c].pc = "raised", ![c].local = @ + 1,
                              ![c].err = "local_failure"]
    /\ UNCHANGED <<videos, files, now, dl, rejected, client, local_model, speech, listings, found, responses>>

Init ==
    /\ videos = <<>>
    /\ transcripts = <<>>
    /\ files = <<>>
    /\ now = 0
    /\ dl = [k \in JobIds |-> [pc |-> "idle", url |-> <<>>, e |-> NoErr]]
    /\ tc = [c \in TCallIds |-> IdleCall]
    /\ rejected = {}
    /\ client \in BOOLEAN
    /\ local_model \in BOOLEAN
    /\ speech = DefaultSpeech
    /\ listings = <<>>
    /\ found = <<>>
    /\ responses = {}

\* the acquisition service and the clock
NextAcq ==
    \/ \E url \in Urls : Create(url)
    \/ \E id \in JobIds : ExtractInfo(id)
    \/ \E id \in JobIds : Download(id)
    \/ \E id \in JobIds : Finalize(id)
    \/ \E id \in JobIds : Handler(id)
    \/ Tick

\* the submission endpoint in front of the acquisition service
NextApi ==
    \/ \E url \in Urls : Reject(url)
    \/ NextAcq

\* the transcription service
NextT ==
    \/ \E c \in TCallIds, video_id \in JobIds : GenStart(c, video_id)
    \/ \E c \in TCallIds : GenHosted(c)
    \/ \E c \in TCallIds : GenLocal(c)

Next == NextAcq \/ NextT

Spec == Init /\ [][Next]_vars

\* no acquisition step reads the transcription service's configuration
InitAcq == Init /\ client /\ local_model

SpecAcq == InitAcq /\ [][NextAcq]_vars

SpecApi == InitAcq /\ [][NextApi]_vars

ResolverNames == [id : JobIds, ext : ResolverExts]

\* every content of the download directory over ResolverNames
Directories ==
    UNION {[S -> [size : {HostedLimit}, mtime : {ResolverNow - a : a \in Ages}]] :
              S \in SUBSET ResolverNames}

\* the first download_video call is about to resolve its output file (line
\* 162) in a directory that earlier runs and other calls have written to
InitResolver ==
    /\ now = ResolverNow
    /\ videos = [k \in {1} |->
                    MetadataRow(InitialRow(UrlUpper), CHOOSE t \in Titles : TRUE,
                                CHOOSE d \in Durations : TRUE)]
    /\ transcripts = <<>>
    /\ files \in Directories
    /\ dl = [k \in JobIds |->
                IF k \in DOMAIN videos
                THEN [pc |-> "downloaded", url |-> UrlUpper, e |-> NoErr]
                ELSE [pc |-> "idle", url |-> <<>>, e |-> NoErr]]
    /\ tc = [c \in TCallIds |-> IdleCall]
    /\ rejected = {}
    /\ client = TRUE
    /\ local_model = TRUE
    /\ speech = DefaultSpeech
    /\ listings = <<>>
    /\ found = <<>>
    /\ responses = {}

NextResolver ==
    \/ \E id \in JobIds : Finalize(id)
    \/ \E id \in JobIds : Handler(id)

SpecResolver == InitResolver /\ [][NextResolver]_vars

\* one Job is completed on a file of either routing class, and the backends
\* return any of Texts for it
InitWords ==
    /\ now = 0
    /\ \E x \in {"MP3"}, size \in Sizes \ {0} :
        /\ videos = [k \in {1} |->
                        CompletedRow(MetadataRow(InitialRow(UrlUpper),
                                                 CHOOSE t \in Titles : TRUE,
                                                 CHOOSE d \in Durations : TRUE),
                                     OutputName(k, x))]
        /\ files = [f \in {OutputName(1, x)} |-> [size |-> size, mtime |-> 0]]
    /\ transcripts = <<>>
    /\ dl = [k \in JobIds |->
                IF k \in DOMAIN videos
                THEN [pc |-> "returned", url |-> UrlUpper, e |-> NoErr]
                ELSE [pc |-> "idle", url |-> <<>>, e |-> NoErr]]
    /\ tc = [c \in TCallIds |-> IdleCall]
    /\ rejected = {}
    /\ client \in BOOLEAN
    /\ local_model \in BOOLEAN
    /\ speech \in [hosted : Texts, local : Texts]
    /\ listings = <<>>
    /\ found = <<>>
    /\ responses = {}

SpecWords == InitWords /\ [][NextT]_vars

\* order_by(Video.created_at.desc()): the orders in which the query can return
\* the stored rows, as sequences of their ids; the ORDER BY names no other
\* column, so rows of equal created_at come in any order
Orderings ==
    {s \in [1..Cardinality(DOMAIN videos) -> DOMAIN videos] :
        /\ \A i, j \in DOMAIN s : i /= j => s[i] /= s[j]
        /\ \A i, j \in DOMAIN s :
              i < j => videos[s[i]].created_at >= videos[s[j]].created_at}

\* main.list_videos: run the query and return its rows in the order received
List ==
    /\ Len(listings) < MaxListings
    /\ \E s \in Orderings : listings' = Append(listings, s)
    /\ UNCHANGED <<videos, transcripts, files, now, dl, tc, rejected, client, local_model,
                   speech, found, responses>>

\* the failure of a download that raised (line 157)
DownloadError ==
    [step |-> "download", len |-> DownloadWrapLen + (CHOOSE n \in ErrLens : TRUE)]

\* rows a download_video call started at time t can have written: as created,
\* with metadata, marked failed
StoredRows(url, t) ==
    LET row == [InitialRow(url) EXCEPT !.created_at = t]
        meta == MetadataRow(row, CHOOSE x \in Titles : TRUE, CHOOSE d \in Durations : TRUE)
    IN {row, meta, ErrorRow(meta, DownloadError)}

\* the position of the call that has written `row`
CallOf(row) ==
    CASE row.title.kind = "placeholder" -> [pc |-> "created", url |-> row.url, e |-> NoErr]
      [] row.title.kind = "extracted" -> [pc |-> "meta", url |-> row.url, e |-> NoErr]
      [] OTHER -> [pc |-> "raised", url |-> row.url, e |-> DownloadError]

\* the stores list_videos can find: any number of Jobs, each created at either
\* instant of the clock
ListStores ==
    UNION {{v \in [S -> StoredRows(UrlUpper, 0) \cup StoredRows(UrlUpper, TickSeconds)
                        \cup StoredRows(UrlEmbed, 0) \cup StoredRows(UrlEmbed, TickSeconds)] :
               \A i, j \in S : i /= j => v[i].url /= v[j].url} :
           S \in {1..n : n \in 0..MaxJobs}}

InitList ==
    /\ now = TickSeconds
    /\ videos \in ListStores
    /\ transcripts = <<>>
    /\ files = <<>>
    /\ dl = [k \in JobIds |->
                IF k \in DOMAIN videos THEN CallOf(videos[k])
                ELSE [pc |-> "idle", url |-> <<>>, e |-> NoErr]]
    /\ tc = [c \in TCallIds |-> IdleCall]
    /\ rejected = {}
    /\ client = TRUE
    /\ local_model = TRUE
    /\ speech = DefaultSpeech
    /\ listings = <<>>
    /\ found = <<>>
    /\ responses = {}

SpecList == InitList /\ [][List]_vars

\* one call of _find_audio_file(video_id) on a directory with these files,
\* listed in any order: a path it can return, None included
Find(video_id) ==
    /\ Len(found) < MaxFinds
    /\ \E path \in FindAudioFile(video_id) :
            found' = Append(found, [video_id |-> video_id, path |-> path])
    /\ UNCHANGED <<videos, transcripts, files, now, dl, tc, rejected, client, local_model,
                   speech, listings, responses>>

\* the resolver is applied to a download directory with any content
InitFind ==
    /\ now = ResolverNow
    /\ videos = <<>>
    /\ transcripts = <<>>
    /\ files \in Directories
    /\ dl = [k \in JobIds |-> [pc |-> "idle", url |-> <<>>, e |-> NoErr]]
    /\ tc = [c \in TCallIds |-> IdleCall]
    /\ rejected = {}
    /\ client = TRUE
    /\ local_model = TRUE
    /\ speech = DefaultSpeech
    /\ listings = <<>>
    /\ found = <<>>
    /\ responses = {}

NextFind == \E video_id \in JobIds : Find(video_id)

SpecFind == InitFind /\ [][NextFind]_vars

\* main.get_video_details, lines 139-151: the status the try block ends with
DetailsBody(video_id) ==
    IF video_id \notin DOMAIN videos THEN NotFoundStatus ELSE OkStatus

\* main.download_audio_file, lines 161-175: the status the try block ends with
AudioBody(video_id) ==
    IF video_id \notin DOMAIN videos \/ videos[video_id].audio_path = NoPath
    THEN NotFoundStatus
    ELSE IF ~Exists(videos[video_id].audio_path) THEN NotFoundStatus
    ELSE OkStatus

\* except Exception as e: raise HTTPException(status_code=400, detail=str(e)).
\* HTTPException is an Exception, so the clause also catches the 404 raised
\* in the try block and replaces it
Respond(body) == IF body = OkStatus THEN OkStatus ELSE BadRequestStatus

GetDetails(video_id) ==
    /\ Cardinality(responses) < MaxResponses
    /\ responses' = responses \cup
            {[op |-> "details", video_id |-> video_id, status |-> Respond(DetailsBody(video_id))]}
    /\ UNCHANGED <<videos, transcripts, files, now, dl, tc, rejected, client, local_model,
                   speech, listings, found>>

DownloadAudio(video_id) ==
    /\ Cardinality(responses) < MaxResponses
    /\ responses' = responses \cup
            {[op |-> "audio", video_id |-> video_id, status |-> Respond(AudioBody(video_id))]}
    /\ UNCHANGED <<videos, transcripts, files, now, dl, tc, rejected, client, local_model,
                   speech, listings, found>>

\* the read endpoints
NextHttp ==
    \/ \E video_id \in JobIds : GetDetails(video_id)
    \/ \E video_id \in JobIds : DownloadAudio(video_id)

\* the read endpoints next to the acquisition service
SpecHttp == InitAcq /\ [][NextAcq \/ NextHttp]_vars

(* ------------------------------ claims --------------------------------- *)
Ended(id) == dl[id].pc \in {"returned", "raised"}

C2_CompletedHasNonEmptyFile ==
    [][\A id \in JobIds :
          (/\ id \in DOMAIN videos'
           /\ videos'[id].status = "completed"
           /\ (id \notin DOMAIN videos \/ videos[id].status /= "completed"))
          => /\ videos'[id].audio_path /= NoPath
             /\ videos'[id].audio_path \in DOMAIN files'
             /\ files'[videos'[id].audio_path].size > 0]_vars

\* one Job completed on a non-empty file while another, whose resolved file had
\* size zero, ended without being completed
C2_Witness ==
    \E i, j \in DOMAIN videos :
        /\ videos[i].status = "completed"
        /\ files[videos[i].audio_path].size > 0
        /\ dl[j].pc = "raised" /\ dl[j].e.step = "empty"
        /\ videos[j].status /= "completed"

\* C3: whenever a download_video call in which some step failed has returned,
\* it raised to the caller and the store holds a Job for its id with status
\* 'error'.
C3_FailureLeavesErrorRecord ==
    \A id \in JobIds :
        (Ended(id) /\ dl[id].e.step /= "none")
        => /\ dl[id].pc = "raised"
           /\ id \in DOMAIN videos
           /\ videos[id].status = "error"

\* C4: no download_video call that has ended, normally or by raising, leaves
\* the Job it created in status 'processing'.
C4_NoOrphanedProcessing ==
    \A id \in DOMAIN videos :
        Ended(id) => videos[id].status \in {"completed", "error"}

\* C5 as stated: the error text stored on a failed Job is at most 100
\* characters long.
C5_ErrorTextAtMost100 ==
    \A id \in DOMAIN videos :
        videos[id].status = "error" => videos[id].title.len <= TruncLen

\* C5 amended: the error text stored on a failed Job is the prefix "Error: "
\* followed by at most the first 100 characters of the failure message, so at
\* most 107 characters, whatever the length of the message.
C5_ErrorTextBounded ==
    \A id \in DOMAIN videos :
        videos[id].status = "error"
        => /\ videos[id].title.kind = "error"
           /\ videos[id].title.len = ErrorPrefixLen + Min(dl[id].e.len, TruncLen)
           /\ videos[id].title.len <= ErrorPrefixLen + TruncLen

\* a failure message longer than 100 characters was stored cut, and a shorter
\* one was stored whole
C5_Witness ==
    \E i, j \in DOMAIN videos :
        /\ videos[i].status = "error" /\ dl[i].e.len > TruncLen
        /\ videos[i].title.len = ErrorPrefixLen + TruncLen
        /\ videos[j].status = "error" /\ dl[j].e.len < TruncLen
        /\ videos[j].title.len = ErrorPrefixLen + dl[j].e.len

LaterSteps == {"download", "resolve", "missing", "empty"}

\* C6: when a step after the metadata commit fails, the Job still holds the
\* extracted title and duration once the call has ended.
C6_MetadataRetained ==
    \A id \in DOMAIN videos :
        (Ended(id) /\ dl[id].e.step \in LaterSteps)
        => /\ videos[id].title.kind = "extracted"
           /\ videos[id].duration \in Durations

\* C7: a URL that contains none of the recognized host substrings (compared
\* case-insensitively, as the validator does) is rejected: no download_video
\* call runs for it and no Job record holds it.
C7_UnrecognizedUrlRejected ==
    /\ \A id \in JobIds : dl[id].pc /= "idle" => HasRecognizedHost(dl[id].url)
    /\ \A id \in DOMAIN videos : HasRecognizedHost(videos[id].url)
    /\ \A u \in rejected : \A id \in JobIds : dl[id].pc /= "idle" => dl[id].url /= u

\* a URL without a recognized host was rejected while another submission ran
C7_Witness ==
    /\ UrlOther \in rejected
    /\ ~HasRecognizedHost(UrlOther)
    /\ \E id \in DOMAIN videos : dl[id].pc /= "idle"

Routed(c) == tc[c].size /= -1

\* C9: a call whose artifact exceeds 25 MiB, or that runs without a hosted
\* client, never invokes the hosted backend; it invokes the local backend if
\* one is loaded and otherwise fails as 'unavailable' with no backend invoked.
\* An artifact of exactly 25 MiB with a hosted client goes to the hosted backend.
C9_LargeOrNoClientGoesLocal ==
    \A c \in TCallIds :
        /\ (Routed(c) /\ (tc[c].size > HostedLimit \/ ~client))
           => /\ tc[c].hosted = 0
              /\ tc[c].pc /= "hosted"
              /\ local_model => (tc[c].pc = "local" \/ tc[c].local = 1)
              /\ ~local_model => /\ tc[c].pc = "raised"
                                 /\ tc[c].err = "unavailable"
                                 /\ tc[c].local = 0
        /\ (Routed(c) /\ tc[c].size = HostedLimit /\ client)
           => (tc[c].pc = "hosted" \/ tc[c].hosted = 1)

\* with a hosted client, an artifact over the limit was sent to the local
\* backend only, and one of exactly 25 MiB was sent to the hosted backend
C9_Witness ==
    /\ client
    /\ \E c, d \in TCallIds :
        /\ tc[c].size > HostedLimit /\ tc[c].pc = "returned"
        /\ tc[c].local = 1 /\ tc[c].hosted = 0
        /\ tc[d].size = HostedLimit /\ tc[d].hosted = 1

\* C10: with an artifact of at most 25 MiB and a hosted client, the hosted
\* backend is invoked first; if it fails and a local backend is loaded, the
\* local backend is invoked and its result is the call's result; if it fails
\* and none is loaded, the call fails with the hosted backend's failure.
C10_HostedFirstThenFallback ==
    \A c \in TCallIds :
        (Routed(c) /\ tc[c].size <= HostedLimit /\ client)
        => /\ tc[c].pc = "hosted" => (tc[c].hosted = 0 /\ tc[c].local = 0)
           /\ tc[c].pc /= "hosted" => tc[c].hosted = 1
           /\ (tc[c].pc = "local" \/ tc[c].local > 0) => tc[c].hostedFailed
           /\ (tc[c].hostedFailed /\ local_model)
              => /\ tc[c].pc = "local" \/ tc[c].local = 1
                 /\ tc[c].pc = "returned" => tc[c].result = "local"
           /\ (tc[c].hostedFailed /\ ~local_model)
              => /\ tc[c].pc = "raised"
                 /\ tc[c].err = "hosted_failure"
                 /\ tc[c].local = 0
           /\ (tc[c].pc = "returned" /\ ~tc[c].hostedFailed) => tc[c].result = "hosted"

\* the hosted backend failed on a small artifact and the local backend's
\* transcript was returned and stored
C10_Witness ==
    \E c \in TCallIds :
        /\ client /\ local_model
        /\ Routed(c) /\ tc[c].size <= HostedLimit
        /\ tc[c].hostedFailed /\ tc[c].hosted = 1 /\ tc[c].local = 1
        /\ tc[c].pc = "returned" /\ tc[c].result = "local"
        /\ \E i \in 1..Len(transcripts) :
            /\ transcripts[i].video_id = tc[c].video_id
            /\ transcripts[i].backend = "local"

\* the failures that report a missing Job or a missing artifact
NotFoundErrs == {"video_not_found", "audio_not_found"}

\* C11: a generate_transcript call that ends before the artifact is measured
\* (no Job record for the id, no artifact path on the Job, or no file at the
\* path) has invoked no backend, has produced no Transcript, and has failed
\* with a not-found failure.
C11_MissingArtifactIsNotFound ==
    \A c \in TCallIds :
        (tc[c].pc = "raised" /\ ~Routed(c))
        => /\ tc[c].hosted = 0
           /\ tc[c].local = 0
           /\ tc[c].result = "none"
           /\ tc[c].err \in NotFoundErrs

TranscriptsOf(video_id) ==
    {i \in 1..Len(transcripts) : transcripts[i].video_id = video_id}

ReturnedCalls(video_id) ==
    {c \in TCallIds : tc[c].pc = "returned" /\ tc[c].video_id = video_id}

\* C12: for every Job, the number of stored Transcripts with its id equals the
\* number of generate_transcript calls for it that have returned; no Transcript
\* carries any other id.
C12_OneTranscriptPerSuccess ==
    /\ \A i \in 1..Len(transcripts) : transcripts[i].video_id \in JobIds
    /\ \A j \in JobIds :
        Cardinality(TranscriptsOf(j)) = Cardinality(ReturnedCalls(j))

\* two calls for one Job returned, one of them through the local backend after
\* the hosted one had failed, and the Job has two Transcripts
C12_Witness ==
    \E c, d \in TCallIds :
        /\ c /= d
        /\ tc[c].pc = "returned" /\ tc[d].pc = "returned"
        /\ tc[c].video_id = tc[d].video_id
        /\ tc[c].hostedFailed /\ tc[c].result = "local"
        /\ Cardinality(TranscriptsOf(tc[c].video_id)) = 2

\* the backends whose failure the exception raised to the caller reports
FailuresCarried(err) ==
    CASE err = "hosted_failure" -> {"hosted"}
      [] err = "local_failure" -> {"local"}
      [] OTHER -> {}

\* C13: a call that has failed after routing reports 'unavailable' when neither
\* a hosted client nor a local model is configured, and, when the hosted
\* backend was invoked and failed and then the local backend was invoked and
\* failed, reports a different failure that carries both backends' failures.
C13_ExhaustionIsAggregated ==
    \A c \in TCallIds :
        (tc[c].pc = "raised" /\ Routed(c))
        => /\ (~client /\ ~local_model) => tc[c].err = "unavailable"
           /\ (tc[c].hostedFailed /\ tc[c].local = 1)
              => /\ tc[c].err /= "unavailable"
                 /\ FailuresCarried(tc[c].err) = {"hosted", "local"}

\* the resolver has been applied for this call
Resolved(id) == dl[id].pc \in {"returned", "handler", "raised"}

HasPrefixedAudio(id) ==
    \E f \in DOMAIN files : f.id = id /\ LowerExt(f.ext) \in audio_extensions

\* C14: when the directory holds a file with the call's id prefix and an
\* accepted audio extension, resolution does not report not-found, and the
\* path it returns names a file of the directory with that prefix and an
\* accepted extension, whatever other recent audio files there are.
C14_PrefixMatchWins ==
    \A id \in DOMAIN videos :
        (Resolved(id) /\ HasPrefixedAudio(id))
        => /\ dl[id].e.step /= "resolve"
           /\ videos[id].status = "completed"
              => /\ videos[id].audio_path \in DOMAIN files
                 /\ videos[id].audio_path.id = id
                 /\ LowerExt(videos[id].audio_path.ext) \in audio_extensions

\* the call's own file, written over ten minutes ago, was returned although
\* another call's audio file was modified 30 seconds ago
C14_Witness ==
    \E id \in DOMAIN videos :
        /\ videos[id].status = "completed"
        /\ videos[id].audio_path.id = id
        /\ now - files[videos[id].audio_path].mtime > RecentWindow
        /\ \E g \in DOMAIN files :
            /\ g.id /= id
            /\ LowerExt(g.ext) \in audio_extensions
            /\ now - files[g].mtime < RecentWindow

RecentAudio ==
    {f \in DOMAIN files :
        LowerExt(f.ext) \in audio_extensions /\ now - files[f].mtime < RecentWindow}

\* C15: when the directory holds no file with the call's id prefix and an
\* accepted extension, a returned path names a file with an accepted extension
\* modified less than 600 seconds before the call; one such file is returned
\* whenever there is any, and resolution reports not-found exactly when there
\* is none.
C15_FallbackWithinWindow ==
    \A id \in DOMAIN videos :
        (Resolved(id) /\ ~HasPrefixedAudio(id))
        => /\ videos[id].status = "completed" => videos[id].audio_path \in RecentAudio
           /\ (dl[id].e.step = "resolve") <=> (RecentAudio = {})

\* without a prefixed file, another call's file modified 30 seconds ago was
\* returned although the directory also holds an audio file aged exactly 600
C15_Witness ==
    \E id \in DOMAIN videos :
        /\ ~HasPrefixedAudio(id)
        /\ videos[id].status = "completed"
        /\ now - files[videos[id].audio_path].mtime = 30
        /\ \E g \in DOMAIN files :
            /\ LowerExt(g.ext) \in audio_extensions
            /\ now - files[g].mtime = RecentWindow

\* without a prefixed file and with audio files aged 600 and 700 only,
\* resolution reported not-found
C15_WitnessNotFound ==
    \E id \in DOMAIN videos :
        /\ ~HasPrefixedAudio(id)
        /\ dl[id].e.step = "resolve"
        /\ \E g, h \in DOMAIN files :
            /\ LowerExt(g.ext) \in audio_extensions
            /\ LowerExt(h.ext) \in audio_extensions
            /\ now - files[g].mtime = RecentWindow
            /\ now - files[h].mtime = 700

\* C16: every step that changes the download directory is the download of one
\* call, adds exactly one file, whose name starts with that call's own id and
\* was not in the directory before, and leaves every other file as it was.
C16_OutputNamesDistinct ==
    [][files' /= files
       => \E id \in JobIds, f \in DOMAIN files' :
            /\ dl[id].pc = "meta" /\ dl'[id].pc /= "meta"
            /\ f.id = id
            /\ f \notin DOMAIN files
            /\ DOMAIN files' = DOMAIN files \cup {f}
            /\ \A g \in DOMAIN files : files'[g] = files[g]]_vars

\* two calls for sources of the same title are both between download and
\* resolution, and the directory holds one file of the same extension for each
C16_Witness ==
    \E i, j \in DOMAIN videos, x \in Exts :
        /\ i /= j
        /\ dl[i].pc = "downloaded" /\ dl[j].pc = "downloaded"
        /\ videos[i].title = videos[j].title
        /\ videos[i].title.kind = "extracted"
        /\ OutputName(i, x) \in DOMAIN files
        /\ OutputName(j, x) \in DOMAIN files

\* the number of maximal runs of non-whitespace characters in a text
Tokens(text) ==
    Cardinality({i \in 1..Len(text) :
                    /\ ~IsSpace(text[i])
                    /\ (i = Len(text) \/ IsSpace(text[i + 1]))})

\* C17: the word count of every stored Transcript is the number of
\* whitespace-delimited tokens of its stored text, whichever backend produced
\* it.
C17_WordCountIsTokenCount ==
    \A i \in 1..Len(transcripts) :
        transcripts[i].word_count = Tokens(transcripts[i].text)

\* a hosted and a local Transcript of texts with leading, trailing, repeated
\* and non-blank whitespace are stored with word count 2
C17_Witness ==
    \E i, j \in 1..Len(transcripts) :
        /\ transcripts[i].backend = "hosted"
        /\ transcripts[i].text = <<"a", "\t", "b">>
        /\ transcripts[i].word_count = 2
        /\ transcripts[j].backend = "local"
        /\ transcripts[j].text = <<" ", "a", " ", " ", "b", "\n">>
        /\ transcripts[j].word_count = 2

\* C18: no two Job records hold the same source URL.
C18_UrlUnique ==
    \A i, j \in DOMAIN videos : i /= j => videos[i].url /= videos[j].url

\* a second submission of a stored URL failed at its insert and has ended
\* without a Job record
C18_Witness ==
    \E k \in JobIds \ DOMAIN videos, i \in DOMAIN videos :
        /\ dl[k].pc = "raised"
        /\ dl[k].e.step = "create"
        /\ videos[i].url = dl[k].url

\* C19: all list_videos calls made while the Job store is not written return
\* the same Jobs in the same order.
C19_ListingRepeatable ==
    \A i, j \in 1..Len(listings) : listings[i] = listings[j]

\* C20: no step leads to a state in which a Job with a non-null artifact path
\* still carries the placeholder title, and the step that stores a Job's
\* artifact path finds the extracted title and duration already stored and
\* leaves them as they are.
C20_MetadataBeforeArtifact ==
    [][/\ \A id \in DOMAIN videos' :
            videos'[id].audio_path /= NoPath => videos'[id].title.kind /= "placeholder"
       /\ \A id \in DOMAIN videos :
            (videos'[id].audio_path /= NoPath /\ videos[id].audio_path = NoPath)
            => /\ videos[id].title.kind = "extracted"
               /\ videos[id].duration \in Durations
               /\ videos'[id].title = videos[id].title
               /\ videos'[id].duration = videos[id].duration]_vars

\* one Job has its artifact path and its extracted title, while another has
\* its extracted title stored and no artifact path yet
C20_Witness ==
    \E i, j \in DOMAIN videos :
        /\ videos[i].audio_path /= NoPath
        /\ videos[i].title.kind = "extracted"
        /\ dl[j].pc \in {"meta", "downloaded"}
        /\ videos[j].title.kind = "extracted"
        /\ videos[j].audio_path = NoPath

CallEnded(c) == tc[c].pc \in {"returned", "raised"}

\* C21: no step leaves a generate_transcript call with more than one hosted
\* or more than one local invocation; after a hosted failure with a local
\* model loaded the call makes exactly one local attempt; the step in which
\* the local attempt fails ends the call with that failure; and a call that
\* has ended invokes nothing more.
C21_EachBackendAtMostOnce ==
    [][\A c \in TCallIds :
          /\ tc'[c].hosted <= 1
          /\ tc'[c].local <= 1
          /\ (tc'[c].hostedFailed /\ local_model)
             => \/ tc'[c].pc = "local" /\ tc'[c].local = 0
                \/ CallEnded(c)' /\ tc'[c].local = 1
          /\ (tc[c].pc = "local" /\ tc'[c] /= tc[c])
             => /\ CallEnded(c)'
                /\ tc'[c].hosted = tc[c].hosted
                /\ tc'[c].pc = "raised" => tc'[c].err = "local_failure"
          /\ CallEnded(c) => tc'[c] = tc[c]]_vars

\* a call whose hosted attempt failed and whose single local attempt failed
\* has ended with the local failure, while another call is still running
C21_Witness ==
    \E c, d \in TCallIds :
        /\ tc[c].pc = "raised" /\ tc[c].err = "local_failure"
        /\ tc[c].hostedFailed /\ tc[c].hosted = 1 /\ tc[c].local = 1
        /\ tc[d].pc \in {"hosted", "local"}

\* the row of call id exactly as lines 77-85 stored it
AsCreated(id) == [InitialRow(dl[id].url) EXCEPT !.created_at = videos[id].created_at]

\* no step of a download_video call changes the row of another call
C22_FrameOnly ==
    [][\A id \in JobIds :
          dl'[id] /= dl[id]
          => \A j \in DOMAIN videos \ {id} :
                j \in DOMAIN videos' /\ videos'[j] = videos[j]]_vars

\* C22: every step of a download_video call leaves the Job records of all
\* other calls unchanged, and when a call ends, the record it created has been
\* written again since its creation.
C22_OwnRecordOnlyWrittenTwice ==
    [][\A id \in JobIds :
          dl'[id] /= dl[id]
          => /\ \A j \in DOMAIN videos \ {id} :
                   j \in DOMAIN videos' /\ videos'[j] = videos[j]
             /\ (Ended(id)' /\ id \in DOMAIN videos') => videos'[id] /= AsCreated(id)']_vars

\* C23: a _find_audio_file call on a directory with several files of the
\* job-id prefix and an accepted extension returns one of them, and all calls
\* for one job id on the same directory return the same file.
C23_ResolverDeterministic ==
    \A i \in 1..Len(found) :
        Cardinality(PrefixMatches(found[i].video_id)) > 1
        => /\ found[i].path \in PrefixMatches(found[i].video_id)
           /\ \A j \in 1..Len(found) :
                found[j].video_id = found[i].video_id => found[j].path = found[i].path

\* with several prefixed files, each call returns one of them
C23_ReturnsAPrefixedFile ==
    \A i \in 1..Len(found) :
        Cardinality(PrefixMatches(found[i].video_id)) > 1
        => found[i].path \in PrefixMatches(found[i].video_id)

\* C24: every completed Job's artifact path names a file with that Job's own
\* id prefix, and no two completed Jobs have the same artifact path.
C24_CompletedOnOwnFile ==
    \A i \in DOMAIN videos :
        videos[i].status = "completed"
        => /\ videos[i].audio_path.id = i
           /\ \A j \in DOMAIN videos :
                (j /= i /\ videos[j].status = "completed")
                => videos[j].audio_path /= videos[i].audio_path

Terminal(row) == row.status \in {"completed", "error"}

NothingToServe(r) ==
    \/ r.video_id \notin DOMAIN videos
    \/ /\ r.op = "audio"
       /\ \/ videos[r.video_id].audio_path = NoPath
          \/ videos[r.video_id].audio_path \notin DOMAIN files

\* C26: every response the details or artifact-download endpoint sends for a
\* request with nothing to serve has status 404.
C26_NotFoundIs404 ==
    [][\A r \in responses' \ responses :
          NothingToServe(r) => r.status = NotFoundStatus]_vars

====
